---------------------------- MODULE Spec2Model ----------------------------
(***************************************************************************)
(* A model of the rename program: its printf-style format engine           *)
(* (formatstring.py) and its driver (rename.py).  Python strings are TLA+  *)
(* strings (1-based), a Python exception is a result record whose exc      *)
(* field names its class.                                                  *)
(***************************************************************************)
EXTENDS Integers, Sequences, FiniteSets, TLC

\* The format engine: one call of format_path
VARIABLES filepath, format_string, stat, pc, index, tokens, pos, output,
          result, err

\* The driver: one run of main, and the filesystem it works on
VARIABLES args, files, disk, results, done, phase, status, failed, disk0

engine == <<filepath, format_string, stat, pc, index, tokens, pos, output,
            result, err>>

driver == <<args, files, disk, results, done, phase, status, failed, disk0>>

vars == <<engine, driver>>

-----------------------------------------------------------------------------
(* Python str primitives *)

Char(s, i) == SubSeq(s, i, i)

\* s[i:] and s[:i] for 0-based i within 0..len(s)
From(s, i) == SubSeq(s, i + 1, Len(s))
Upto(s, i) == SubSeq(s, 1, i)

SetMax(S) == CHOOSE m \in S : \A k \in S : k <= m
SetMin(S) == CHOOSE m \in S : \A k \in S : m <= k

\* 0-based offsets at which sub occurs in s
Occurrences(s, sub) ==
  {i \in 0..(Len(s) - Len(sub)) : SubSeq(s, i + 1, i + Len(sub)) = sub}

\* str.find / str.rfind: 0-based offset, -1 when absent
Find(s, sub) == IF Occurrences(s, sub) = {} THEN -1 ELSE SetMin(Occurrences(s, sub))
RFind(s, sub) == IF Occurrences(s, sub) = {} THEN -1 ELSE SetMax(Occurrences(s, sub))

Contains(s, sub) == Occurrences(s, sub) # {}

\* str.split(sep, 1) and str.rsplit(sep, 1): a sequence of one or two parts
Split1(s, sep) ==
  IF Find(s, sep) = -1 THEN <<s>>
  ELSE <<Upto(s, Find(s, sep)), From(s, Find(s, sep) + Len(sep))>>
RSplit1(s, sep) ==
  IF RFind(s, sep) = -1 THEN <<s>>
  ELSE <<Upto(s, RFind(s, sep)), From(s, RFind(s, sep) + Len(sep))>>

\* str.split(sep) for a non-empty sep: cut at each occurrence, left to right
RECURSIVE StrSplit(_, _)
StrSplit(s, sep) ==
  IF Find(s, sep) = -1 THEN <<s>>
  ELSE <<Upto(s, Find(s, sep))>> \o StrSplit(From(s, Find(s, sep) + Len(sep)), sep)

LOWERS == "abcdefghijklmnopqrstuvwxyz"
UPPERS == "ABCDEFGHIJKLMNOPQRSTUVWXYZ"

UpperChar(c) == IF Contains(LOWERS, c) THEN Char(UPPERS, Find(LOWERS, c) + 1) ELSE c
LowerChar(c) == IF Contains(UPPERS, c) THEN Char(LOWERS, Find(UPPERS, c) + 1) ELSE c

RECURSIVE StrUpper(_)
StrUpper(s) == IF s = "" THEN "" ELSE UpperChar(Head(s)) \o StrUpper(Tail(s))
RECURSIVE StrLower(_)
StrLower(s) == IF s = "" THEN "" ELSE LowerChar(Head(s)) \o StrLower(Tail(s))

\* The decimal digits, and a character that str.isdigit accepts but int() rejects:
\* SUPERSCRIPT TWO (U+00B2), written "^" in the strings of this module
DECIMALS == "0123456789"
SUPERSCRIPT_TWO == "^"

IsDigitChar(c) == Contains(DECIMALS, c) \/ c = SUPERSCRIPT_TWO

\* str.isdigit: non-empty and every character a digit
StrIsDigit(s) == s # "" /\ \A i \in 1..Len(s) : IsDigitChar(Char(s, i))

IsDecimal(s) == s # "" /\ \A i \in 1..Len(s) : Contains(DECIMALS, Char(s, i))

RECURSIVE DecimalValue(_)
DecimalValue(s) ==
  IF s = "" THEN 0
  ELSE 10 * DecimalValue(Upto(s, Len(s) - 1)) + Find(DECIMALS, Char(s, Len(s)))

\* int(s) for the strings isnumber lets through: TRUE when int() raises ValueError
IntRaises(s) == ~ (IsDecimal(s) \/ (Head(s) = "-" /\ IsDecimal(Tail(s))))
IntValue(s) == IF Head(s) = "-" THEN 0 - DecimalValue(Tail(s)) ELSE DecimalValue(s)

\* s[b:e] with Python's clamping of out-of-range and negative bounds
ClampBound(n, len) ==
  IF n < 0 THEN (IF len + n < 0 THEN 0 ELSE len + n)
  ELSE (IF n > len THEN len ELSE n)
Slice(s, b, e) == SubSeq(s, ClampBound(b, Len(s)) + 1, ClampBound(e, Len(s)))

-----------------------------------------------------------------------------
(* os.path (posixpath) *)

SEP == "/"
EXTSEP == "."

AllSlashes(s) == \A i \in 1..Len(s) : Char(s, i) = SEP

RECURSIVE RStripSep(_)
RStripSep(s) ==
  IF s # "" /\ Char(s, Len(s)) = SEP THEN RStripSep(Upto(s, Len(s) - 1)) ELSE s

PathBasename(p) == From(p, RFind(p, SEP) + 1)

PathDirname(p) ==
  LET head == Upto(p, RFind(p, SEP) + 1)
  IN  IF head # "" /\ ~ AllSlashes(head) THEN RStripSep(head) ELSE head

PathJoin(a, b) ==
  IF b # "" /\ Head(b) = SEP THEN b
  ELSE IF a = "" \/ Char(a, Len(a)) = SEP THEN a \o b
  ELSE a \o SEP \o b

-----------------------------------------------------------------------------
(* Results of the Python functions: exc = "" for a normal return, else the   *)
(* class of the exception raised.                                            *)

NoException == ""
Returned(v) == [exc |-> NoException, value |-> v]
Raised(class) == [exc |-> class, value |-> <<>>]

\* Python's None is <<>>, a str s is <<s>>
None == <<>>
Some(s) == <<s>>

-----------------------------------------------------------------------------
(* The lexer: indexes are 0-based as in the source, format_string[i] is     *)
(* Char(format_string, i + 1).                                               *)

TOK_SPECIAL == "%"
TOK_COMMA == ","
TOK_SEPARATOR == "="

At(fs, i) == Char(fs, i + 1)

NextChar(fs, i) ==
  IF i + 1 < Len(fs)
  THEN [exc |-> NoException, char |-> At(fs, i + 1), index |-> i + 1]
  ELSE [exc |-> "FormatParseError", char |-> "", index |-> i]

\* Mutant: the search goes to the last occurrence, as if parentheses nested
ConsumeUntil_LastOccurrence(fs, i, char, can_recover) ==
  LET hits == {curr \in i..(Len(fs) - 1) : At(fs, curr) = char}
  IN  IF hits # {}
      THEN [exc |-> NoException, text |-> SubSeq(fs, i + 1, SetMax(hits)),
            index |-> SetMax(hits)]
      ELSE IF can_recover
      THEN [exc |-> NoException, text |-> "", index |-> i]
      ELSE [exc |-> "FormatParseError", text |-> "", index |-> i]

ConsumeUntil(fs, i, char, can_recover) ==
  LET hits == {curr \in i..(Len(fs) - 1) : At(fs, curr) = char}
  IN  IF hits # {}
      THEN [exc |-> NoException, text |-> SubSeq(fs, i + 1, SetMin(hits)),
            index |-> SetMin(hits)]
      ELSE IF can_recover
      THEN [exc |-> NoException, text |-> "", index |-> i]
      ELSE [exc |-> "FormatParseError", text |-> "", index |-> i]

Consume(fs, i) ==
  LET first == NextChar(fs, i)
  IN  IF first.exc # NoException
      THEN [exc |-> first.exc, char |-> "", index |-> first.index, field_value |-> None]
      ELSE IF first.char # "("
      THEN [exc |-> NoException, char |-> first.char, index |-> first.index,
            field_value |-> None]
      ELSE LET arg == ConsumeUntil(fs, first.index + 1, ")", FALSE)
           IN  IF arg.exc # NoException
               THEN [exc |-> arg.exc, char |-> "", index |-> arg.index,
                     field_value |-> None]
               ELSE LET code == NextChar(fs, arg.index)
                    IN  IF code.exc # NoException
                        THEN [exc |-> code.exc, char |-> "", index |-> code.index,
                              field_value |-> None]
                        ELSE [exc |-> NoException, char |-> code.char,
                              index |-> code.index, field_value |-> Some(arg.text)]

\* The tokens parse_format_string appends: a str, or a dict (source_string is
\* always the format string itself and is not repeated in the token)
Literal(char) == [kind |-> "str", token |-> char]
Directive(code, field_value, source_index) ==
  [kind |-> "dict", token |-> code, field_value |-> field_value,
   source_index |-> source_index]

\* One pass of the loop of parse_format_string at index i
ParseStep(fs, i) ==
  IF At(fs, i) = TOK_SPECIAL
  THEN LET c == Consume(fs, i)
       IN  IF c.exc # NoException
           THEN [exc |-> c.exc, index |-> c.index, token |-> <<>>]
           ELSE [exc |-> NoException, index |-> c.index + 1,
                 token |-> <<Directive(c.char, c.field_value, c.index)>>]
  ELSE [exc |-> NoException, index |-> i + 1, token |-> <<Literal(At(fs, i))>>]

\* parse_format_string run to its end from index i with the tokens so far
RECURSIVE ParseFrom(_, _, _)
ParseFrom(fs, i, toks) ==
  IF i >= Len(fs) THEN [exc |-> NoException, index |-> i, tokens |-> toks]
  ELSE LET step == ParseStep(fs, i)
       IN  IF step.exc # NoException
           THEN [exc |-> step.exc, index |-> step.index, tokens |-> <<>>]
           ELSE ParseFrom(fs, step.index, toks \o step.token)

ParseFormatString(fs) == ParseFrom(fs, 0, <<>>)

-----------------------------------------------------------------------------
(* The file behind the path.  stat is None when open() and os.stat() fail   *)
(* (the file is missing or unreadable), else Some(size in bytes); the test   *)
(* fixtures write size copies of "1", so the size fixes the content.         *)

Sha256Prefix(size) ==
  CASE size = 0 -> "e3b0c442"
    [] size = 32 -> "8a83665f"
    [] OTHER -> "4ff5ac52"

\* The modification time of every file of the model, by strftime directive
MTIME == [Y |-> "2024", m |-> "01", d |-> "02"]

\* datetime.strftime: %Y, %m, %d and %% are converted, anything else is copied
RECURSIVE Strftime(_)
Strftime(pattern) ==
  IF pattern = "" THEN ""
  ELSE IF Head(pattern) = "%" /\ Len(pattern) >= 2
  THEN (CASE Char(pattern, 2) = "Y" -> MTIME.Y
          [] Char(pattern, 2) = "m" -> MTIME.m
          [] Char(pattern, 2) = "d" -> MTIME.d
          [] Char(pattern, 2) = "%" -> "%"
          [] OTHER -> Upto(pattern, 2)) \o Strftime(From(pattern, 2))
  ELSE Head(pattern) \o Strftime(Tail(pattern))

\* str(n) for n >= 0
RECURSIVE IntToStr(_)
IntToStr(n) ==
  IF n < 10 THEN Char(DECIMALS, n + 1)
  ELSE IntToStr(n \div 10) \o Char(DECIMALS, (n % 10) + 1)

-----------------------------------------------------------------------------
(* The directive handlers.  Each returns Returned(Some(str)) or Raised(..).  *)

IsNumber(value) ==
  IF value # "" /\ Head(value) = "-" THEN StrIsDigit(Tail(value)) ELSE StrIsDigit(value)

\* _verify_args with an int nargs: TRUE when it raises ValueError
VerifyArgsRaises(nargs, count) == count # nargs

\* Mutant: the name is cut at its first separator instead of its last
GetBasename_FirstSeparator(path) == Split1(PathBasename(path), EXTSEP)[1]

GetBasename(path) == RSplit1(PathBasename(path), EXTSEP)[1]

GetExtension(path) ==
  LET parts == RSplit1(PathBasename(path), EXTSEP)
  IN  IF Len(parts) = 2 THEN parts[2] ELSE ""

\* Mutant: the marker is emitted as it is written in the format string
TokPercent_Doubled == Returned(Some(TOK_SPECIAL \o TOK_SPECIAL))

TokPercent == Returned(Some(TOK_SPECIAL))

TokBasename(path) == Returned(Some(GetBasename(path)))

TokExtsep == Returned(Some(EXTSEP))

TokExtension(path) == Returned(Some(GetExtension(path)))

TokHash(st) ==
  IF st = None THEN Raised("OSError") ELSE Returned(Some(Sha256Prefix(st[1])))

TokSize(st) ==
  IF st = None THEN Raised("OSError") ELSE Returned(Some(IntToStr(st[1])))

\* Mutant: a missing end means the last character instead of the length
TokSubstr_EndBeforeLast(path, field_value) ==
  IF field_value = None THEN Raised("TypeError")
  ELSE IF ~ Contains(field_value[1], TOK_COMMA) THEN Raised("FormatApplyError")
  ELSE LET begin_str == Split1(field_value[1], TOK_COMMA)[1]
           end_str == Split1(field_value[1], TOK_COMMA)[2]
           name == GetBasename(path)
       IN  IF begin_str # "" /\ ~ IsNumber(begin_str) THEN Raised("FormatApplyError")
           ELSE IF end_str # "" /\ ~ IsNumber(end_str) THEN Raised("FormatApplyError")
           ELSE IF begin_str # "" /\ IntRaises(begin_str) THEN Raised("ValueError")
           ELSE IF end_str # "" /\ IntRaises(end_str) THEN Raised("ValueError")
           ELSE Returned(Some(Slice(name,
                  IF begin_str # "" THEN IntValue(begin_str) ELSE 0,
                  IF end_str # "" THEN IntValue(end_str) ELSE -1)))

TokSubstr(path, field_value) ==
  IF field_value = None THEN Raised("TypeError")
  ELSE IF ~ Contains(field_value[1], TOK_COMMA) THEN Raised("FormatApplyError")
  ELSE LET begin_str == Split1(field_value[1], TOK_COMMA)[1]
           end_str == Split1(field_value[1], TOK_COMMA)[2]
           name == GetBasename(path)
       IN  IF begin_str # "" /\ ~ IsNumber(begin_str) THEN Raised("FormatApplyError")
           ELSE IF end_str # "" /\ ~ IsNumber(end_str) THEN Raised("FormatApplyError")
           ELSE IF begin_str # "" /\ IntRaises(begin_str) THEN Raised("ValueError")
           ELSE IF end_str # "" /\ IntRaises(end_str) THEN Raised("ValueError")
           ELSE Returned(Some(Slice(name,
                  IF begin_str # "" THEN IntValue(begin_str) ELSE 0,
                  IF end_str # "" THEN IntValue(end_str) ELSE Len(name))))

\* Mutant: the index is used as it is written, without the step to 0-based
TokTokenize_ZeroBased(path, field_value) ==
  IF field_value = None THEN Raised("TypeError")
  ELSE IF ~ Contains(field_value[1], TOK_SEPARATOR) THEN Raised("FormatApplyError")
  ELSE LET field == RSplit1(field_value[1], TOK_SEPARATOR)[1]
           index_str == RSplit1(field_value[1], TOK_SEPARATOR)[2]
           name == GetBasename(path)
       IN  IF ~ StrIsDigit(index_str) THEN Raised("FormatApplyError")
           ELSE IF field = "" THEN Raised("ValueError")
           ELSE IF IntRaises(index_str) THEN Raised("ValueError")
           ELSE IF IntValue(index_str) >= Len(StrSplit(name, field))
           THEN Returned(Some(""))
           ELSE Returned(Some(StrSplit(name, field)[IntValue(index_str) + 1]))

TokTokenize(path, field_value) ==
  IF field_value = None THEN Raised("TypeError")
  ELSE IF ~ Contains(field_value[1], TOK_SEPARATOR) THEN Raised("FormatApplyError")
  ELSE LET field == RSplit1(field_value[1], TOK_SEPARATOR)[1]
           index_str == RSplit1(field_value[1], TOK_SEPARATOR)[2]
           name == GetBasename(path)
       IN  IF ~ StrIsDigit(index_str) THEN Raised("FormatApplyError")
           ELSE IF field = "" THEN Raised("ValueError")
           ELSE IF IntRaises(index_str) THEN Raised("ValueError")
           ELSE IF IntValue(index_str) - 1 < 0 THEN Returned(Some(""))
           ELSE IF IntValue(index_str) - 1 >= Len(StrSplit(name, field))
           THEN Returned(Some(""))
           ELSE Returned(Some(StrSplit(name, field)[IntValue(index_str)]))

TokUpper(path, field_value) ==
  IF VerifyArgsRaises(1, 1) THEN Raised("ValueError")
  ELSE LET r == TokTokenize(path, field_value)
       IN  IF r.exc # NoException THEN r ELSE Returned(Some(StrUpper(r.value[1])))

TokLower(path, field_value) ==
  IF VerifyArgsRaises(1, 1) THEN Raised("ValueError")
  ELSE LET r == TokTokenize(path, field_value)
       IN  IF r.exc # NoException THEN r ELSE Returned(Some(StrLower(r.value[1])))

TokModtime(st, field_value) ==
  IF field_value = None THEN Raised("FormatApplyError")
  ELSE IF st = None THEN Raised("OSError")
  ELSE Returned(Some(Strftime(field_value[1])))

\* The codes the _token decorator has registered
TOKENS == {"%", "B", ".", "E", "H", "S", "C", "T", "U", "L", "M"}

\* Mutant: the registry is indexed, so a code that is not registered raises
ApplyToken_Indexed(path, token, st) ==
  IF token.token \notin TOKENS THEN Raised("KeyError")
  ELSE CASE token.token = "%" -> TokPercent
         [] token.token = "B" -> TokBasename(path)
         [] token.token = "." -> TokExtsep
         [] token.token = "E" -> TokExtension(path)
         [] token.token = "H" -> TokHash(st)
         [] token.token = "S" -> TokSize(st)
         [] token.token = "C" -> TokSubstr(path, token.field_value)
         [] token.token = "T" -> TokTokenize(path, token.field_value)
         [] token.token = "U" -> TokUpper(path, token.field_value)
         [] token.token = "L" -> TokLower(path, token.field_value)
         [] token.token = "M" -> TokModtime(st, token.field_value)

\* apply_token: None for a code that is not registered
ApplyToken(path, token, st) ==
  IF token.token \notin TOKENS THEN Returned(None)
  ELSE CASE token.token = "%" -> TokPercent
         [] token.token = "B" -> TokBasename(path)
         [] token.token = "." -> TokExtsep
         [] token.token = "E" -> TokExtension(path)
         [] token.token = "H" -> TokHash(st)
         [] token.token = "S" -> TokSize(st)
         [] token.token = "C" -> TokSubstr(path, token.field_value)
         [] token.token = "T" -> TokTokenize(path, token.field_value)
         [] token.token = "U" -> TokUpper(path, token.field_value)
         [] token.token = "L" -> TokLower(path, token.field_value)
         [] token.token = "M" -> TokModtime(st, token.field_value)

-----------------------------------------------------------------------------
(* format_path *)

\* "".join(parts)
RECURSIVE JoinStr(_)
JoinStr(parts) == IF parts = <<>> THEN "" ELSE Head(parts) \o JoinStr(Tail(parts))

\* One pass of the loop of format_path over a token: what is appended to the
\* output list (nothing for a None result), or the exception that escapes
FormatStep(path, token, st) ==
  IF token.kind = "str" THEN [exc |-> NoException, append |-> <<token.token>>]
  ELSE LET r == ApplyToken(path, token, st)
       IN  IF r.exc # NoException THEN [exc |-> r.exc, append |-> <<>>]
           ELSE [exc |-> NoException, append |-> r.value]

RECURSIVE FormatFrom(_, _, _, _, _)
FormatFrom(path, toks, k, out, st) ==
  IF k > Len(toks) THEN [exc |-> NoException, output |-> out]
  ELSE LET step == FormatStep(path, toks[k], st)
       IN  IF step.exc # NoException THEN [exc |-> step.exc, output |-> <<>>]
           ELSE FormatFrom(path, toks, k + 1, out \o step.append, st)

FormatResult(path, out) == PathJoin(PathDirname(path), JoinStr(out))

\* format_path as a function of the path, the format string and the file
FormatPath(path, fs, st) ==
  LET parsed == ParseFormatString(fs)
  IN  IF parsed.exc # NoException THEN Raised(parsed.exc)
      ELSE LET applied == FormatFrom(path, parsed.tokens, 1, <<>>, st)
           IN  IF applied.exc # NoException THEN Raised(applied.exc)
               ELSE Returned(Some(FormatResult(path, applied.output)))

-----------------------------------------------------------------------------
(* The inputs: file paths and format strings *)

\* Concatenations of at most n members of a set of strings
RECURSIVE Concats(_, _)
Concats(S, n) ==
  IF n = 0 THEN {""} ELSE Concats(S, n - 1) \cup {a \o b : a \in Concats(S, n - 1), b \in S}

MaxPieces == 2
MaxBound == 3
MaxIndex == 3

\* The files of the model and their sizes; any other path is missing
FILES == [p \in {"foo-bar.gz", "d/a-B.c", "d//a.b", "a.", ".a", "a.b.c"} |->
            IF p \in {"a.", ".a"} THEN 0 ELSE 32]

Paths == DOMAIN FILES \cup {"/a", "d.x/b=a"}

StatOf(path) == IF path \in DOMAIN FILES THEN Some(FILES[path]) ELSE None

\* Literal characters, the bare marker, directives with and without an
\* argument (registered or not, well-formed or not), and unfinished directives
Pieces ==
  {"a", "/", ".", "(", ")", "%",
   "%%", "%B", "%E", "%.", "%H", "%S", "%X", "%C", "%T", "%U", "%L", "%M",
   "%(a)X", "%(/)M", "%(%Y)M", "%(a)C", "%(-)T", "%(^,)C", "%(=1)T", "%(-=1)T",
   "%(", "%(a", "%(a)"}

\* The format strings of the test suite and the driver's FORMAT_DEFAULT
TestFormats ==
  {"%B.%E", "%B.%E.gz", "%B.tar.gz", "%B%.%E", "%(-=1)T.%E", "%(-=2)U.%E",
   "%(-=1)U_%(-=2)U.TXT", "%(,)C%.%E", "%(,-1)C%.%E", "%(-=2)T-%S.%E",
   "%(%Y%m%d)M", "%H%.%E"}

\* Arguments of %C: begin,end over the bounds, and malformed ones
Bounds ==
  {""} \cup {IntToStr(n) : n \in 0..MaxBound} \cup {"-" \o IntToStr(n) : n \in 0..MaxBound}

ArgsC ==
  {b \o TOK_COMMA \o e : b, e \in Bounds}
    \cup {"", "1", "a,", ",a", "-,", "1,2,3", "^,1", ",-^", "+1,", "01,10", "1=2"}

\* Arguments of %T, %U and %L: field=index, and malformed ones
Fields == {"-", "=", "", "a", "oo", "."}

ArgsT ==
  {f \o TOK_SEPARATOR \o IntToStr(n) : f \in Fields, n \in 0..MaxIndex}
    \cup {"", "-", "-=", "-=a", "-=-1", "-=^", "-=1a", "-=02", "1,2"}

WithArgument ==
  {"%(" \o a \o ")C" : a \in ArgsC}
    \cup {"%(" \o a \o ")" \o c : a \in ArgsT, c \in {"T", "U", "L"}}

FormatStrings ==
  Concats(Pieces, MaxPieces) \cup TestFormats
    \cup {pre \o d \o post : pre \in {"", "x"}, d \in WithArgument, post \in {"", "%.%E"}}

-----------------------------------------------------------------------------
(* format_path as a state machine: parse_format_string's loop, then the     *)
(* loop over the tokens, then the join with the directory.                  *)

NoError == [exc |-> NoException, index |-> -1, subject |-> ""]

\* format_path called on its own, as the tests of the engine call it: no run
\* of main is under way
DriverIdle ==
  /\ args = <<>>
  /\ files = {}
  /\ disk = <<>>
  /\ results = <<>>
  /\ done = 0
  /\ phase = "off"
  /\ status = None
  /\ failed = {}
  /\ disk0 = <<>>

Init ==
  /\ filepath \in Paths
  /\ format_string \in FormatStrings
  /\ stat = StatOf(filepath)
  /\ pc = "parse"
  /\ index = 0
  /\ tokens = <<>>
  /\ pos = 1
  /\ output = <<>>
  /\ result = None
  /\ err = NoError
  /\ DriverIdle

\* parse_format_string: one pass of the loop that appends a token
ParseToken ==
  /\ pc = "parse"
  /\ index < Len(format_string)
  /\ ParseStep(format_string, index).exc = NoException
  /\ tokens' = tokens \o ParseStep(format_string, index).token
  /\ index' = ParseStep(format_string, index).index
  /\ UNCHANGED <<filepath, format_string, stat, pc, pos, output, result, err>>
  /\ UNCHANGED driver

\* parse_format_string: FormatParseError leaves the function, its tokens are lost
ParseFail ==
  /\ pc = "parse"
  /\ index < Len(format_string)
  /\ ParseStep(format_string, index).exc # NoException
  /\ pc' = "raised"
  /\ err' = [exc |-> ParseStep(format_string, index).exc,
             index |-> ParseStep(format_string, index).index,
             subject |-> format_string]
  /\ tokens' = <<>>
  /\ UNCHANGED <<filepath, format_string, stat, index, pos, output, result>>
  /\ UNCHANGED driver

\* parse_format_string returns its tokens to format_path
ParseReturn ==
  /\ pc = "parse"
  /\ index >= Len(format_string)
  /\ pc' = "apply"
  /\ UNCHANGED <<filepath, format_string, stat, index, tokens, pos, output, result, err>>
  /\ UNCHANGED driver

\* format_path: one pass of the loop over the tokens
Apply ==
  /\ pc = "apply"
  /\ pos <= Len(tokens)
  /\ FormatStep(filepath, tokens[pos], stat).exc = NoException
  /\ output' = output \o FormatStep(filepath, tokens[pos], stat).append
  /\ pos' = pos + 1
  /\ UNCHANGED <<filepath, format_string, stat, pc, index, tokens, result, err>>
  /\ UNCHANGED driver

\* format_path: a handler's exception leaves format_path, the output is lost
ApplyFail ==
  /\ pc = "apply"
  /\ pos <= Len(tokens)
  /\ FormatStep(filepath, tokens[pos], stat).exc # NoException
  /\ pc' = "raised"
  /\ err' = [exc |-> FormatStep(filepath, tokens[pos], stat).exc, index |-> -1,
             subject |-> filepath]
  /\ output' = <<>>
  /\ UNCHANGED <<filepath, format_string, stat, index, tokens, pos, result>>
  /\ UNCHANGED driver

\* format_path: the fragment is joined with the directory and returned
Join ==
  /\ pc = "apply"
  /\ pos > Len(tokens)
  /\ result' = Some(FormatResult(filepath, output))
  /\ pc' = "done"
  /\ UNCHANGED <<filepath, format_string, stat, index, tokens, pos, output, err>>
  /\ UNCHANGED driver

Next == ParseToken \/ ParseFail \/ ParseReturn \/ Apply \/ ApplyFail \/ Join

Spec == Init /\ [][Next]_vars

\* The same machine over every short path, with the format strings of the
\* tests, for the properties of the path functions
MaxPathLen == 5

AllPaths == Concats({"a", ".", "/"}, MaxPathLen)

PathFormats == TestFormats \cup {"%B", "%E", "%("}

InitPaths ==
  /\ filepath \in AllPaths
  /\ format_string \in PathFormats
  /\ stat = StatOf(filepath)
  /\ pc = "parse"
  /\ index = 0
  /\ tokens = <<>>
  /\ pos = 1
  /\ output = <<>>
  /\ result = None
  /\ err = NoError
  /\ DriverIdle

SpecPaths == InitPaths /\ [][Next]_vars

-----------------------------------------------------------------------------
(* Properties *)

Finished == pc \in {"done", "raised"}

FormatErrors == {"FormatParseError", "FormatApplyError"}

\* The token the loop of format_path is at
AtDirective(codes) ==
  /\ pc = "apply"
  /\ pos <= Len(tokens)
  /\ tokens[pos].kind = "dict"
  /\ tokens[pos].token \in codes

\* C1: format_path returns a string or raises FormatParseError or
\* FormatApplyError; no exception of another class leaves it.
C1_OnlyFormatErrors ==
  /\ pc = "raised" => err.exc \in FormatErrors
  /\ pc = "done" => result # None

\* C2: when format_path succeeds, the directory component of its result is
\* the directory component of the input path.
C2_DirectoryPreserved ==
  pc = "done" =>
    /\ result = Some(PathJoin(PathDirname(filepath), JoinStr(output)))
    /\ PathDirname(result[1]) = PathDirname(filepath)

\* s with every "%" doubled
RECURSIVE Doubled(_)
Doubled(s) ==
  IF s = "" THEN ""
  ELSE (IF Head(s) = "%" THEN "%%" ELSE Head(s)) \o Doubled(Tail(s))

\* The strings that some string doubles to, and what they come from
RECURSIVE IsDoubled(_)
IsDoubled(s) ==
  IF s = "" THEN TRUE
  ELSE IF Head(s) # "%" THEN IsDoubled(Tail(s))
  ELSE Len(s) >= 2 /\ Char(s, 2) = "%" /\ IsDoubled(From(s, 2))

RECURSIVE Undoubled(_)
Undoubled(s) ==
  IF s = "" THEN ""
  ELSE IF Head(s) # "%" THEN Head(s) \o Undoubled(Tail(s))
  ELSE "%" \o Undoubled(From(s, 2))

C3_Finished ==
  (Finished /\ PathDirname(filepath) = "" /\ IsDoubled(format_string)) =>
    /\ pc = "done"
    /\ result = Some(Undoubled(format_string))
    /\ ~ Contains(format_string, "%") => result = Some(format_string)
    /\ Doubled(Undoubled(format_string)) = format_string

C3_Lexed ==
  (pc = "parse" /\ index + 2 <= Len(format_string)
     /\ SubSeq(format_string, index + 1, index + 2) = "%%") =>
    /\ pc' = "parse"
    /\ index' = index + 2
    /\ tokens' = Append(tokens, Directive("%", None, index + 1))

C3_Applied ==
  (AtDirective({"%"}) /\ tokens[pos].field_value = None) =>
    /\ pc' = "apply"
    /\ output' = Append(output, "%")

\* C3: with an empty directory, a format string without "%" is returned as
\* it is and a string with every "%" doubled is returned undoubled; each "%%"
\* is lexed as one directive and contributes exactly one "%" in its place.
C3_LiteralText == [] C3_Finished /\ [][C3_Lexed /\ C3_Applied]_vars

C3_Witness ==
  /\ pc = "done"
  /\ filepath = "foo-bar.gz"
  /\ format_string = "a%%"
  /\ result = Some("a%")

\* The outcome of the run: the exception's class, or the string returned
Outcome == [exc |-> err.exc, value |-> result]

\* The format string without the text of one of its directive tokens
WithoutDirective(fs, token) ==
  LET first == IF token.field_value = None THEN token.source_index - 1
               ELSE token.source_index - Len(token.field_value[1]) - 3
  IN  Upto(fs, first) \o From(fs, token.source_index + 1)

Unregistered(token) == token.kind = "dict" /\ token.token \notin TOKENS

\* C4: a directive whose code is not registered is lexed like any other, is
\* never the token that raises, appends nothing, and the run ends as the run
\* on the format string without that directive ends.
C4_UnknownDirectiveDropped ==
  /\ (pc = "raised" /\ err.exc # "FormatParseError") => ~ Unregistered(tokens[pos])
  /\ \A k \in 1..Len(tokens) :
       Unregistered(tokens[k]) =>
         /\ FormatStep(filepath, tokens[k], stat) = [exc |-> NoException, append |-> <<>>]
         /\ pc = "parse" =>
              At(format_string, tokens[k].source_index) = tokens[k].token
         /\ Finished =>
              Outcome = FormatPath(filepath, WithoutDirective(format_string, tokens[k]), stat)

C4_Witness ==
  /\ pc = "done"
  /\ filepath = "d/a-B.c"
  /\ format_string = "%(a)X%B"
  /\ Unregistered(tokens[1])
  /\ result = Some("d/a-B")

\* An optionally signed integer, as isnumber means it
IsSignedInt(s) == IsDecimal(s) \/ (s # "" /\ Head(s) = "-" /\ IsDecimal(Tail(s)))

MalformedSubstr(arg) ==
  \/ ~ Contains(arg, TOK_COMMA)
  \/ \E bound \in {Split1(arg, TOK_COMMA)[1], Split1(arg, TOK_COMMA)[2]} :
       bound # "" /\ ~ IsSignedInt(bound)

MalformedField(arg) ==
  \/ ~ Contains(arg, TOK_SEPARATOR)
  \/ ~ StrIsDigit(RSplit1(arg, TOK_SEPARATOR)[2])

Malformed(token) ==
  /\ token.kind = "dict"
  /\ token.field_value # None
  /\ \/ token.token = "C" /\ MalformedSubstr(token.field_value[1])
     \/ token.token \in {"T", "U", "L"} /\ MalformedField(token.field_value[1])

\* C5: when a token of the format string is %C, %T, %U or %L with a malformed
\* argument, format_path raises FormatApplyError and returns nothing.
C5_MalformedArgumentIsApplyError ==
  (Finished /\ \E k \in 1..Len(tokens) : Malformed(tokens[k])) =>
    /\ pc = "raised"
    /\ err.exc = "FormatApplyError"
    /\ result = None

\* The directive that starts at the "%" at offset i cannot be completed
IncompleteAt(fs, i) ==
  \/ i + 1 >= Len(fs)
  \/ /\ At(fs, i + 1) = "("
     /\ LET closing == {j \in (i + 2)..(Len(fs) - 1) : At(fs, j) = ")"}
        IN  closing = {} \/ SetMin(closing) = Len(fs) - 1

\* C6: an incomplete last directive makes parse_format_string raise
\* FormatParseError; no token is returned, and the error carries the format
\* string and an offset that is an index of the string inside that directive.
C6_ParseErrorOffset ==
  /\ (pc = "parse" /\ index < Len(format_string) /\ At(format_string, index) = "%"
        /\ IncompleteAt(format_string, index)) =>
       ParseStep(format_string, index).exc = "FormatParseError"
  /\ (pc = "raised" /\ err.exc = "FormatParseError") =>
       /\ tokens = <<>> /\ output = <<>> /\ result = None
       /\ err.subject = format_string
       /\ At(format_string, index) = "%" /\ IncompleteAt(format_string, index)
       /\ index <= err.index
       /\ 0 <= err.index /\ err.index < Len(format_string)

\* The parts of a field=index argument, cut at its rightmost "="
FieldOf(arg) == RSplit1(arg, TOK_SEPARATOR)[1]
IndexOf(arg) == RSplit1(arg, TOK_SEPARATOR)[2]

\* The directive the loop of format_path is at has an argument
AtArgument(codes) == AtDirective(codes) /\ tokens[pos].field_value # None

OutOfRangeIndex(arg, name) ==
  /\ Contains(arg, TOK_SEPARATOR)
  /\ \/ IsDecimal(IndexOf(arg)) /\ IntValue(IndexOf(arg)) = 0
     \/ IsSignedInt(IndexOf(arg)) /\ IntValue(IndexOf(arg)) < 0
     \/ /\ IsDecimal(IndexOf(arg))
        /\ FieldOf(arg) # ""
        /\ IntValue(IndexOf(arg)) > Len(StrSplit(name, FieldOf(arg)))

C7_Step ==
  (AtArgument({"T", "U", "L"})
     /\ OutOfRangeIndex(tokens[pos].field_value[1], GetBasename(filepath))) =>
    /\ pc' = "apply"
    /\ output' = Append(output, "")
    /\ pos' = pos + 1

\* C7: %T, %U and %L with an index of 0, a negative index or an index above
\* the number of segments never raise: they append the empty string and the
\* loop goes on to the next token, for every basename and field text.
C7_OutOfRangeIndexYieldsEmpty == [][C7_Step]_vars

\* segs are the pieces of name between the occurrences of sep, left to right
RECURSIVE JoinWith(_, _)
JoinWith(segs, sep) ==
  IF Len(segs) = 1 THEN segs[1] ELSE segs[1] \o sep \o JoinWith(Tail(segs), sep)

SplitsOn(segs, name, sep) ==
  /\ Len(segs) >= 1
  /\ JoinWith(segs, sep) = name
  /\ \A i \in 1..(Len(segs) - 1) : Find(segs[i] \o sep, sep) = Len(segs[i])
  /\ ~ Contains(segs[Len(segs)], sep)

InRangeIndex(arg, name) ==
  /\ Contains(arg, TOK_SEPARATOR)
  /\ FieldOf(arg) # ""
  /\ IsDecimal(IndexOf(arg))
  /\ 1 <= IntValue(IndexOf(arg))
  /\ IntValue(IndexOf(arg)) <= Len(StrSplit(name, FieldOf(arg)))

Cased(code, s) ==
  CASE code = "U" -> StrUpper(s)
    [] code = "L" -> StrLower(s)
    [] OTHER -> s

C8_Step ==
  AtArgument({"T", "U", "L"}) =>
    LET arg == tokens[pos].field_value[1]
        name == GetBasename(filepath)
        segs == StrSplit(name, FieldOf(arg))
        asT == TokTokenize(filepath, tokens[pos].field_value)
    IN  /\ InRangeIndex(arg, name) =>
             /\ SplitsOn(segs, name, FieldOf(arg))
             /\ pc' = "apply"
             /\ output' = Append(output, Cased(tokens[pos].token, segs[IntValue(IndexOf(arg))]))
        /\ (pc' = "raised") = (asT.exc # NoException)
        /\ pc' = "raised" => err'.exc = asT.exc
        /\ pc' = "apply" => (output' = Append(output, "")) = (asT.value = Some(""))

\* C8: for field=n cut at the rightmost "=", a non-empty field and n from 1
\* to the number of segments, %T appends the n-th segment of the basename
\* split on the field text, %U that segment in upper case and %L in lower
\* case; %U and %L raise, or append the empty string, exactly when %T does.
C8_FieldSelection == [][C8_Step]_vars

C8_Witness ==
  /\ pc = "apply"
  /\ filepath = "foo-bar.gz"
  /\ format_string = "%(-=2)U%.%E"
  /\ pos = 2
  /\ output = <<"BAR">>

WellFormedSubstr(arg) ==
  /\ Contains(arg, TOK_COMMA)
  /\ \A bound \in {Split1(arg, TOK_COMMA)[1], Split1(arg, TOK_COMMA)[2]} :
       bound = "" \/ IsSignedInt(bound)

\* A bound counted from the end when negative, and clamped to 0..len
Position(n, len) ==
  IF n < 0 THEN (IF len + n > 0 THEN len + n ELSE 0)
  ELSE (IF n < len THEN n ELSE len)

\* The characters of name at the 0-based offsets lo, lo + 1, .. below hi
RECURSIVE CharsBetween(_, _, _)
CharsBetween(name, lo, hi) ==
  IF lo >= hi THEN "" ELSE At(name, lo) \o CharsBetween(name, lo + 1, hi)

C9_Step ==
  (AtArgument({"C"}) /\ WellFormedSubstr(tokens[pos].field_value[1])) =>
    LET begin_str == Split1(tokens[pos].field_value[1], TOK_COMMA)[1]
        end_str == Split1(tokens[pos].field_value[1], TOK_COMMA)[2]
        name == GetBasename(filepath)
        lo == IF begin_str = "" THEN 0 ELSE Position(IntValue(begin_str), Len(name))
        hi == IF end_str = "" THEN Len(name) ELSE Position(IntValue(end_str), Len(name))
    IN  /\ pc' = "apply"
        /\ pos' = pos + 1
        /\ output' = Append(output, CharsBetween(name, lo, hi))
        /\ (begin_str = "" /\ end_str = "") =>
             output' = output \o TokBasename(filepath).value

\* C9: %(begin,end)C with each bound empty or an optionally signed integer
\* appends basename[begin:end]: an empty begin is 0, an empty end the
\* length, a negative bound counts from the end, a bound out of range is
\* clamped, and nothing is raised; %(,)C appends what %B appends.
C9_BasenameSlice == [][C9_Step]_vars

C9_Witness ==
  /\ pc = "apply"
  /\ filepath = "foo-bar.gz"
  /\ format_string = "%(1,-2)C"
  /\ pos = 2
  /\ output = <<"oo-b">>

HasExtension(path) == Contains(PathBasename(path), EXTSEP)

C10_Decomposition ==
  (pc = "done" /\ format_string = "%B%.%E") =>
    /\ Len(output) = 3
    /\ HasExtension(filepath) =>
         /\ output[1] \o EXTSEP \o output[3] = PathBasename(filepath)
         /\ ~ Contains(output[3], EXTSEP)
    /\ ~ HasExtension(filepath) =>
         /\ output[1] = PathBasename(filepath)
         /\ output[3] = ""

\* C10 as claimed: %B, the separator and %E make up the filename, %E has no
\* separator, and "%B%.%E" returns the original path; without a separator
\* %B is the filename and %E is empty.
C10_RoundTrip ==
  /\ C10_Decomposition
  /\ (pc = "done" /\ format_string = "%B%.%E" /\ HasExtension(filepath)) =>
       result = Some(filepath)

\* Exactly one "/" stands before the filename, or none, or only the root's
SingleSeparator(path) ==
  LET head == Upto(path, RFind(path, SEP) + 1)
  IN  AllSlashes(head) \/ Char(head, Len(head) - 1) # SEP

\* C10 as amended: "%B%.%E" returns the directory joined with the filename,
\* which is the original path when a single "/" stands before the filename.
C10_RoundTripOfName ==
  /\ C10_Decomposition
  /\ (pc = "done" /\ format_string = "%B%.%E" /\ HasExtension(filepath)) =>
       /\ result = Some(PathJoin(PathDirname(filepath), PathBasename(filepath)))
       /\ PathDirname(result[1]) = PathDirname(filepath)
       /\ PathBasename(result[1]) = PathBasename(filepath)
       /\ SingleSeparator(filepath) => result = Some(filepath)

C10_Witness ==
  /\ pc = "done"
  /\ filepath = "a/a.a"
  /\ format_string = "%B%.%E"
  /\ output = <<"a", ".", "a">>
  /\ result = Some("a/a.a")

-----------------------------------------------------------------------------
(* The filesystem the driver works on: a function from the paths of the     *)
(* regular files to their sizes (the fixtures write size copies of "1", so   *)
(* the size fixes the content), below a working directory that has the       *)
(* subdirectories DIRS.  Paths are relative and case matters.                *)

DIRS == {"d"}

\* The kernel's reading of a path: repeated separators count as one
RECURSIVE Collapse(_)
Collapse(p) ==
  IF Contains(p, SEP \o SEP)
  THEN Collapse(Upto(p, Find(p, SEP \o SEP)) \o From(p, Find(p, SEP \o SEP) + 1))
  ELSE p

IsFile(d, p) == Collapse(p) \in DOMAIN d

\* os.path.isdir
IsDir(p) == p # "" /\ (AllSlashes(p) \/ RStripSep(Collapse(p)) \in DIRS)

\* os.path.exists
Exists(d, p) == IsFile(d, p) \/ IsDir(p)

\* open(path, "rb") and os.stat(path) in the handlers of %H, %S and %M
StatOn(d, p) == IF IsFile(d, p) THEN Some(d[Collapse(p)]) ELSE None

\* os.rename raises OSError: no such source, no directory to put it in, or a
\* destination that is (or is written as) a directory
OsRenameRaises(d, src, dst) ==
  \/ ~ IsFile(d, src)
  \/ dst = ""
  \/ IsDir(dst)
  \/ Char(dst, Len(dst)) = SEP
  \/ ~ (PathDirname(Collapse(dst)) = "" \/ IsDir(PathDirname(Collapse(dst))))

\* os.rename: the source is gone and the destination has its content, whatever
\* was there before
OsRename(d, src, dst) ==
  [q \in (DOMAIN d \ {Collapse(src)}) \cup {Collapse(dst)} |->
     IF q = Collapse(dst) THEN d[Collapse(src)] ELSE d[q]]

-----------------------------------------------------------------------------
(* rename.py *)

FORMAT_DEFAULT == "%H%.%E"

SplitPath(file_path) ==
  [file_dir |-> PathDirname(file_path),
   file_base |-> GetBasename(PathBasename(file_path)),
   file_ext |-> GetExtension(PathBasename(file_path))]

JoinPath(file_dir, file_base, file_ext) ==
  PathJoin(file_dir, IF file_ext # "" THEN file_base \o EXTSEP \o file_ext ELSE file_base)

\* Mutant: the destination is not looked at
RenameFile_Unchecked(d, from_path, to_path, overwrite) ==
  IF OsRenameRaises(d, from_path, to_path)
  THEN [exc |-> "OSError", value |-> FALSE, disk |-> d]
  ELSE [exc |-> NoException, value |-> TRUE, disk |-> OsRename(d, from_path, to_path)]

\* rename_file: what it returns or raises, and the filesystem it leaves;
\* final_path is the destination once a directory has been entered
RenameFileTo(d, from_path, final_path, overwrite) ==
  IF Exists(d, final_path) /\ ~ overwrite
  THEN [exc |-> NoException, value |-> FALSE, disk |-> d]
  ELSE IF OsRenameRaises(d, from_path, final_path)
  THEN [exc |-> "OSError", value |-> FALSE, disk |-> d]
  ELSE [exc |-> NoException, value |-> TRUE, disk |-> OsRename(d, from_path, final_path)]

RenameFile(d, from_path, to_path, overwrite) ==
  RenameFileTo(d, from_path,
               IF IsDir(to_path) THEN PathJoin(to_path, PathBasename(from_path))
               ELSE to_path,
               overwrite)

\* main, after parse_args: the modes that imply --dry are not modelled, --force
\* implies --overwrite, and a run without any rule gets the default format
\* (an empty string is no rule); path holds the files of the command line
ParsedArguments(raw) ==
  LET rule == \/ raw.map_ext # None
              \/ (raw.format # None /\ raw.format[1] # "")
              \/ raw.upper
              \/ raw.lower
  IN  [path |-> raw.path,
       format |-> IF rule THEN raw.format ELSE Some(FORMAT_DEFAULT),
       map_ext |-> raw.map_ext,
       upper |-> raw.upper,
       lower |-> raw.lower,
       dry |-> raw.dry,
       overwrite |-> raw.overwrite \/ raw.force,
       force |-> raw.force]

\* dict([entry.split("=", 1) for entry in args.map_ext]): a later entry for
\* the same extension replaces an earlier one, an entry without "=" is a
\* ValueError
MapExtRaises(entries) ==
  \E i \in 1..Len(entries) : ~ Contains(entries[i], TOK_SEPARATOR)

MappedExt(entries, file_ext) ==
  LET hits == {i \in 1..Len(entries) : Split1(entries[i], TOK_SEPARATOR)[1] = file_ext}
  IN  IF hits = {} THEN None ELSE Some(Split1(entries[SetMax(hits)], TOK_SEPARATOR)[2])

\* The --format step of the loop of main: the new path, or the exception
\* format_path raised, with the path left as it was
FormattedAs(path, r) ==
  IF r.exc = NoException
  THEN [exc |-> NoException, curr_path |-> r.value[1]]
  ELSE [exc |-> r.exc, curr_path |-> path]

Formatted(path, a, d) ==
  IF a.format = None THEN [exc |-> NoException, curr_path |-> path]
  ELSE FormattedAs(path, FormatPath(path, a.format[1], StatOn(d, path)))

\* The --map-ext step
ExtMappedTo(curr_path, split, file_ext) ==
  IF file_ext = None THEN curr_path
  ELSE JoinPath(split.file_dir, split.file_base, file_ext[1])

ExtMappedOf(curr_path, split, entries) ==
  ExtMappedTo(curr_path, split, MappedExt(entries, split.file_ext))

ExtMapped(curr_path, a) ==
  IF a.map_ext = None THEN curr_path
  ELSE ExtMappedOf(curr_path, SplitPath(curr_path), a.map_ext[1])

\* The --upper and --lower steps
UpperedOf(split) == JoinPath(split.file_dir, StrUpper(split.file_base), split.file_ext)

Uppered(curr_path, a) == IF a.upper THEN UpperedOf(SplitPath(curr_path)) ELSE curr_path

LoweredOf(split) == JoinPath(split.file_dir, StrLower(split.file_base), split.file_ext)

Lowered(curr_path, a) == IF a.lower THEN LoweredOf(SplitPath(curr_path)) ELSE curr_path

\* Mutant: a new path that exists is planned like any other
AddEntry_ExistingPlanned(path, curr_path, a, d) ==
  IF curr_path = "" THEN FALSE
  ELSE IF curr_path = path THEN FALSE
  ELSE TRUE

\* The decision at the end of the loop body
AddEntry(path, curr_path, a, d) ==
  IF curr_path = "" THEN FALSE
  ELSE IF curr_path = path THEN FALSE
  ELSE IF Exists(d, curr_path) THEN a.overwrite \/ a.force
  ELSE TRUE

\* The steps of the loop body that follow --format, one after the other
Renamed(curr_path, a) == Lowered(Uppered(ExtMapped(curr_path, a), a), a)

\* The loop body after the --format step, whose outcome is f: the exception
\* that leaves main (exc), or ap.error("aborting") (abort), or else the new
\* path and whether the pair is planned; format_error tells that format_path
\* raised a FormatError, which main logs
PlannedAfter(path, a, d, f, curr_path) ==
  IF f.exc \notin {NoException, "FormatParseError", "FormatApplyError"}
  THEN [exc |-> f.exc, abort |-> FALSE, format_error |-> FALSE,
        curr_path |-> path, add_entry |-> FALSE]
  ELSE IF f.exc # NoException /\ ~ a.force
  THEN [exc |-> NoException, abort |-> TRUE, format_error |-> TRUE,
        curr_path |-> path, add_entry |-> FALSE]
  ELSE IF a.map_ext # None /\ MapExtRaises(a.map_ext[1])
  THEN [exc |-> "ValueError", abort |-> FALSE, format_error |-> f.exc # NoException,
        curr_path |-> path, add_entry |-> FALSE]
  ELSE [exc |-> NoException, abort |-> FALSE, format_error |-> f.exc # NoException,
        curr_path |-> curr_path, add_entry |-> AddEntry(path, curr_path, a, d)]

FormattedThen(path, a, d, f) == PlannedAfter(path, a, d, f, Renamed(f.curr_path, a))

\* One pass of the loop of main over a file
Planned(path, a, d) == FormattedThen(path, a, d, Formatted(path, a, d))

-----------------------------------------------------------------------------
(* The inputs of a run of main: the files on disk, the paths on the command  *)
(* line and the options                                                      *)

MaxFiles == 2

\* The files there may be, with their sizes
TREE ==
  [p \in {"a.txt", "b.txt", "A.txt", "a.", "x", "d/a.txt"} |->
     CASE p \in {"a.txt", "b.txt"} -> 32
       [] p = "x" -> 128
       [] OTHER -> 0]

\* Every file but the two that are there or not
Disks ==
  {[q \in DOMAIN TREE \ S |-> TREE[q]] : S \in SUBSET {"A.txt", "x"}}

InputPaths == DOMAIN TREE \cup {"d//a.txt"}

Inputs == {S \in SUBSET InputPaths : Cardinality(S) \in 1..MaxFiles}

Formats == {"x", "%B%.gz", "%(", "%C", "%(a)C", "d/%B", "y/%B"}

Options ==
  {[path |-> S, format |-> f, map_ext |-> e, upper |-> c = "upper", lower |-> c = "lower",
    dry |-> m = "dry", overwrite |-> m = "overwrite", force |-> m = "force"] :
     S \in Inputs,
     f \in {None} \cup {Some(x) : x \in Formats},
     e \in {None, Some(<<"txt=html">>)},
     c \in {"", "upper", "lower"},
     m \in {"", "dry", "overwrite", "force"}}

\* No call of format_path is followed step by step during a run of main
EngineIdle ==
  /\ filepath = ""
  /\ format_string = ""
  /\ stat = None
  /\ pc = "off"
  /\ index = 0
  /\ tokens = <<>>
  /\ pos = 1
  /\ output = <<>>
  /\ result = None
  /\ err = NoError

InitMain ==
  /\ EngineIdle
  /\ args \in {ParsedArguments(raw) : raw \in Options}
  /\ files = args.path
  /\ disk \in Disks
  /\ results = <<>>
  /\ done = 0
  /\ phase = "plan"
  /\ status = None
  /\ failed = {}
  /\ disk0 = disk

-----------------------------------------------------------------------------
(* main as a state machine: the loop that plans the renames (a set is        *)
(* walked in any order), then the loop that carries them out.  status is     *)
(* the exit status of the process: 2 from ap.error, 1 from SystemExit(1) or  *)
(* from an exception nothing catches, 0 when main returns.                   *)

\* One pass of the first loop that goes on to the next file
Plan(f, planned) ==
  /\ planned.exc = NoException
  /\ ~ planned.abort
  /\ files' = files \ {f}
  /\ results' = IF planned.add_entry THEN Append(results, <<f, planned.curr_path>>)
                ELSE results
  /\ failed' = IF planned.format_error THEN failed \cup {f} ELSE failed
  /\ UNCHANGED <<args, disk, done, phase, status, disk0>>
  /\ UNCHANGED engine

\* A FormatError without --force: ap.error("aborting")
Abort(f, planned) ==
  /\ planned.abort
  /\ failed' = failed \cup {f}
  /\ phase' = "exit"
  /\ status' = Some(2)
  /\ UNCHANGED <<args, files, disk, results, done, disk0>>
  /\ UNCHANGED engine

\* An exception that is no FormatError leaves main
PlanRaise(f, planned) ==
  /\ planned.exc # NoException
  /\ phase' = "exit"
  /\ status' = Some(1)
  /\ UNCHANGED <<args, files, disk, results, done, failed, disk0>>
  /\ UNCHANGED engine

\* The body of the first loop for the file f
LoopBody(f, planned) == Plan(f, planned) \/ Abort(f, planned) \/ PlanRaise(f, planned)

\* The first loop takes the files in the order of a set
Loop ==
  /\ phase = "plan"
  /\ \E f \in files : LoopBody(f, Planned(f, args, disk))

\* Nothing is planned: SystemExit(1)
NoAction ==
  /\ phase = "plan"
  /\ files = {}
  /\ results = <<>>
  /\ phase' = "exit"
  /\ status' = Some(1)
  /\ UNCHANGED <<args, files, disk, results, done, failed, disk0>>
  /\ UNCHANGED engine

\* The first loop is over and the second begins
BeginRenames ==
  /\ phase = "plan"
  /\ files = {}
  /\ results # <<>>
  /\ phase' = "rename"
  /\ UNCHANGED <<args, files, disk, results, done, status, failed, disk0>>
  /\ UNCHANGED engine

\* One pass of the second loop under --dry: the command is printed
DryRun ==
  /\ phase = "rename"
  /\ done < Len(results)
  /\ args.dry
  /\ done' = done + 1
  /\ UNCHANGED <<args, files, disk, results, phase, status, failed, disk0>>
  /\ UNCHANGED engine

\* One pass of the second loop: rename_file, whose result main does not read
Rename(renamed) ==
  /\ renamed.exc = NoException
  /\ disk' = renamed.disk
  /\ done' = done + 1
  /\ UNCHANGED <<args, files, results, phase, status, failed, disk0>>
  /\ UNCHANGED engine

\* os.rename raises and the exception leaves main
RenameRaise(renamed) ==
  /\ renamed.exc # NoException
  /\ phase' = "exit"
  /\ status' = Some(1)
  /\ UNCHANGED <<args, files, disk, results, done, failed, disk0>>
  /\ UNCHANGED engine

RenameOrRaise(renamed) == Rename(renamed) \/ RenameRaise(renamed)

RenameNext ==
  /\ phase = "rename"
  /\ done < Len(results)
  /\ ~ args.dry
  /\ RenameOrRaise(RenameFile(disk, results[done + 1][1], results[done + 1][2],
                              args.overwrite))

\* main returns
Exit ==
  /\ phase = "rename"
  /\ done = Len(results)
  /\ phase' = "exit"
  /\ status' = Some(0)
  /\ UNCHANGED <<args, files, disk, results, done, failed, disk0>>
  /\ UNCHANGED engine

NextMain == Loop \/ NoAction \/ BeginRenames \/ DryRun \/ RenameNext \/ Exit

SpecMain == InitMain /\ [][NextMain]_vars

-----------------------------------------------------------------------------
(* Properties of the driver *)

\* The files main has planned to rename
PlannedSources == {results[i][1] : i \in 1..Len(results)}

\* C11: a file whose formatting raised FormatParseError or FormatApplyError
\* is not renamed in that run, whatever the options: it is not among the
\* planned renames and it stays where it was.
C11_FormatErrorPreventsRename ==
  \A f \in failed :
    /\ f \notin PlannedSources
    /\ StatOn(disk, f) = StatOn(disk0, f)

\* The renames the second loop has gone through
Performed == {i \in 1..Len(results) : i <= done}

\* The new path main computes for the file f of the command line, when the
\* loop body gets as far as computing one
NewPathOf(f, new_path) ==
  /\ Planned(f, args, disk0).exc = NoException
  /\ ~ Planned(f, args, disk0).abort
  /\ Planned(f, args, disk0).curr_path = new_path

\* The candidates for a new path: what the loop body can compute in this run
NewPaths == {Planned(f, args, disk0).curr_path : f \in args.path}

\* f is a file whose new path exists, in a run without --overwrite and --force
ExistingDestination(f, new_path) ==
  /\ ~ args.overwrite
  /\ ~ args.force
  /\ IsFile(disk0, f)
  /\ NewPathOf(f, new_path)
  /\ Exists(disk0, new_path)

\* The file f keeps its place and the file at new_path its content
Untouched(f, new_path) ==
  /\ f \notin PlannedSources
  /\ StatOn(disk, f) = StatOn(disk0, f)
  /\ \A i \in Performed : Collapse(results[i][2]) # Collapse(new_path)
  /\ \/ StatOn(disk, new_path) = StatOn(disk0, new_path)
     \/ /\ ~ IsFile(disk, new_path)
        /\ \E i \in Performed : Collapse(results[i][1]) = Collapse(new_path)
  /\ (args.path = {f} /\ phase = "exit") => status \in {Some(1), Some(2)}

\* The loop body of f computes, as planned tells, a new path that exists
UntouchedIfExists(f, planned) ==
  (/\ planned.exc = NoException
   /\ ~ planned.abort
   /\ Exists(disk0, planned.curr_path)) => Untouched(f, planned.curr_path)

\* C12: when the new path of a file exists and neither --overwrite nor
\* --force is given, the file is not planned, it stays at its old path with
\* its content, nothing is renamed onto the destination, whose file keeps its
\* content (it leaves the destination only as the source of its own rename),
\* and a run with this file as its only input ends with a non-zero status.
C12_ExistingDestinationUntouched ==
  (~ args.overwrite /\ ~ args.force) =>
    \A f \in args.path :
      IsFile(disk0, f) => UntouchedIfExists(f, Planned(f, args, disk0))

\* A run whose only file is sent to another path that exists has ended
C12_Witness ==
  /\ phase = "exit"
  /\ status = Some(1)
  /\ disk = disk0
  /\ \E f \in args.path : \E new_path \in NewPaths :
       /\ args.path = {f}
       /\ ExistingDestination(f, new_path)
       /\ new_path # f
       /\ IsFile(disk0, new_path)

\* No renaming rule was given: main has put the default format in
NoRule ==
  /\ args.format = Some(FORMAT_DEFAULT)
  /\ args.map_ext = None
  /\ ~ args.upper
  /\ ~ args.lower

\* f is a file whose new path differs from the old one and does not exist
FreeDestination(f, new_path) ==
  /\ IsFile(disk0, f)
  /\ NewPathOf(f, new_path)
  /\ new_path # ""
  /\ new_path # f
  /\ ~ Exists(disk0, new_path)

\* C13: when the new path of a file differs from its old path and does not
\* exist, a run without --dry ends with status 0, and then no file is at the
\* old path and a file with the same content is at the new path, which lies
\* in the directory of the old path under the expected name; without a
\* renaming rule that name is the hash, the separator and the old extension.
C13_RenamedToNewPath ==
  phase = "exit" =>
    \A f \in args.path : \A new_path \in NewPaths :
      (~ args.dry /\ FreeDestination(f, new_path)) =>
        /\ status = Some(0)
        /\ ~ IsFile(disk, f)
        /\ StatOn(disk, new_path) = StatOn(disk0, f)
        /\ StatOn(disk, PathJoin(PathDirname(f), PathBasename(new_path)))
             = StatOn(disk0, f)
        /\ NoRule =>
             PathBasename(new_path)
               = Sha256Prefix(StatOn(disk0, f)[1]) \o EXTSEP \o GetExtension(f)

\* The files of a filesystem that have the content c
FilesWith(d, c) == {q \in DOMAIN d : d[q] = c}

\* Two filesystems hold the same contents, each as many times
SameContents(d, e) ==
  \A c \in {d[q] : q \in DOMAIN d} \cup {e[q] : q \in DOMAIN e} :
    Cardinality(FilesWith(d, c)) = Cardinality(FilesWith(e, c))

\* A step that moves one file to a path where nothing is
MovesToFreePath ==
  \E src \in DOMAIN disk :
    \E dst \in {Collapse(results[i][2]) : i \in 1..Len(results)} :
      /\ dst \notin DOMAIN disk
      /\ ~ IsDir(dst)
      /\ DOMAIN disk' = (DOMAIN disk \ {src}) \cup {dst}
      /\ disk'[dst] = disk[src]
      /\ \A q \in DOMAIN disk \ {src} : disk'[q] = disk[q]

C15_Step ==
  (~ args.overwrite /\ ~ args.force) => (disk' = disk \/ MovesToFreePath)

C15_Kept ==
  (phase # "off" /\ ~ args.overwrite /\ ~ args.force) => SameContents(disk, disk0)

\* C15: in a run without --overwrite and --force every step leaves the
\* filesystem as it is or moves one file onto a path where nothing is at that
\* moment, so the contents on disk are at every moment those of the start,
\* each as many times, also when several inputs get the same new path.
C15_NoContentDestroyed == [] C15_Kept /\ [][C15_Step]_vars

\* Two inputs had the same new path: the first was moved there, the second
\* was refused
C15_Witness ==
  /\ ~ args.overwrite
  /\ ~ args.force
  /\ ~ args.dry
  /\ done = 2
  /\ Len(results) = 2
  /\ Collapse(results[1][2]) = Collapse(results[2][2])
  /\ Collapse(results[1][1]) # Collapse(results[2][1])
  /\ IsFile(disk0, results[1][1])
  /\ IsFile(disk0, results[2][1])
  /\ IsFile(disk, results[2][1])
  /\ StatOn(disk, results[1][2]) = StatOn(disk0, results[1][1])

\* --upper or --lower is the only renaming rule of the run
OnlyCase ==
  /\ args.format = None
  /\ args.map_ext = None
  /\ args.upper \/ args.lower

\* C16: join_path(*split_path(p)) = p for every path p the loop of main has
\* gone through, and when --upper or --lower is the only rule the new path
\* has the directory and the extension of the old one and differs from it in
\* the case of letters only.
C16_SplitJoinInverse ==
  phase # "off" =>
    \A f \in args.path \ files :
      /\ JoinPath(SplitPath(f).file_dir, SplitPath(f).file_base, SplitPath(f).file_ext) = f
      /\ OnlyCase =>
           /\ PathDirname(Renamed(f, args)) = PathDirname(f)
           /\ GetExtension(Renamed(f, args)) = GetExtension(f)
           /\ StrLower(Renamed(f, args)) = StrLower(f)

-----------------------------------------------------------------------------
(* Properties of the lexer *)

\* A token as it is written in a format string
Written(token) ==
  IF token.kind = "str" THEN token.token
  ELSE TOK_SPECIAL
         \o (IF token.field_value = None THEN "" ELSE "(" \o token.field_value[1] \o ")")
         \o token.token

RECURSIVE WrittenBack(_)
WrittenBack(toks) ==
  IF toks = <<>> THEN "" ELSE Written(Head(toks)) \o WrittenBack(Tail(toks))

\* The directive token stands in fs as a marker, then its argument in
\* parentheses if it has one, then its code, which is the character at the
\* token's source index; the argument ends at the first ")" after the "("
CompleteDirective(fs, token) ==
  LET code_at == token.source_index
      start == IF token.field_value = None THEN code_at - 1
               ELSE code_at - Len(token.field_value[1]) - 3
  IN  /\ Len(token.token) = 1
      /\ start >= 0
      /\ code_at < Len(fs)
      /\ SubSeq(fs, start + 1, code_at + 1) = Written(token)
      /\ token.field_value # None => ~ Contains(token.field_value[1], ")")
      /\ token.field_value = None => token.token # "("

\* parse_format_string has returned the tokens
Lexed == pc \in {"apply", "done"} \/ (pc = "raised" /\ err.exc # "FormatParseError")

C14_Tokens ==
  /\ pc = "parse" => WrittenBack(tokens) = Upto(format_string, index)
  /\ Lexed =>
       /\ WrittenBack(tokens) = format_string
       /\ Len(tokens) <= Len(format_string)
       /\ \A k \in 1..Len(tokens) :
            tokens[k].kind = "dict" => CompleteDirective(format_string, tokens[k])

\* The pass of the loop at index i ends: with the parse error, or with one
\* token and an index further on in the string
PassEnds(fs, i, step) ==
  \/ step.exc = "FormatParseError"
  \/ /\ step.exc = NoException
     /\ Len(step.token) = 1
     /\ i < step.index
     /\ step.index <= Len(fs)

\* The lexer is never stuck: while characters are left its next pass ends
\* (and when none is left it returns)
C14_CanStep ==
  (pc = "parse" /\ index < Len(format_string)) =>
    PassEnds(format_string, index, ParseStep(format_string, index))

\* Each pass of the loop of the lexer adds one token and moves on in the
\* string, which it does not leave: the passes are at most as many as the
\* characters
C14_Step ==
  (pc = "parse" /\ pc' = "parse") =>
    /\ index < index'
    /\ index' <= Len(format_string)
    /\ Len(tokens') = Len(tokens) + 1

\* C14: when parse_format_string succeeds, every directive token comes from
\* a complete sequence of marker, optional argument in parentheses and one
\* code character, its argument is the text up to the first ")" after the
\* "(" and so holds no ")", the tokens written back in order are the input
\* string, there are no more tokens than characters, and the lexer always
\* comes to an end: each pass ends, with the parse error or with one more
\* token and an index further on in a string it does not leave.
C14_LexerLossless == [] (C14_Tokens /\ C14_CanStep) /\ [][C14_Step]_vars

\* A string with a second ")" after a directive's argument has been lexed
C14_Witness ==
  /\ pc = "apply"
  /\ format_string = "%(a)X%(a)X"
  /\ Len(tokens) = 2
  /\ tokens[1].field_value = Some("a")
  /\ tokens[2].field_value = Some("a")

=============================================================================
